---- MODULE Spec2Model ----
(***************************************************************************)
(* The CSS selector builder of src/src/05-objects-tasks.js: class          *)
(* MyBuilder and the facade object cssSelectorBuilder.                     *)
(*                                                                         *)
(* A JavaScript string is a sequence of one-character strings, so that     *)
(* template literals, Array.prototype.join and String.prototype.includes   *)
(* are computed character by character.  A method is an operator from the  *)
(* receiver's state and the argument to the record                         *)
(*   [self |-> receiver's state when the call ends,                        *)
(*    err  |-> message of the Error thrown, or None,                       *)
(*    ret  |-> returned value: a string, or This for "return this"],       *)
(* and one action per method applies it to an instance of the heap.        *)
(***************************************************************************)
EXTENDS Integers, Sequences, FiniteSets, TLC

VARIABLES
    heap,   \* the MyBuilder instances created so far, in creation order
    log,    \* history: per instance, the setter calls accepted on it
    made,   \* history: per instance, the expression that created it
    last    \* the last call made: method, receiver, error thrown, result

vars == <<heap, log, made, last>>

-----------------------------------------------------------------------------
(* Bounds of the exploration                                               *)

MaxCalls == 4       \* Spec: accepted calls that change the instance
MaxOps == 3         \* FacadeSpec: accepted calls that make or change an instance
MaxBuilders == 3    \* FacadeSpec: instances on the heap

(* Arguments of the calls on one instance: the empty string and a name     *)
Values == { <<>>, <<"a">> }

(* Arguments of the calls through the facade                               *)
Names == { <<"a">> }

(* Combinators: the space, which the claims single out, and one symbol     *)
Combinators == { <<" ">>, <<"+">> }

-----------------------------------------------------------------------------
(* JavaScript values                                                       *)

\* null: a one-element sequence that no string equals (strings are made of
\* one-character elements)
null == <<"null">>

\* no Error thrown
None == "none"

\* `return this`
This == <<"this">>

\* no value returned (the call threw)
Undefined == <<"undefined">>

\* how join('') and a template literal print a value: null prints as ''
\* in Array.prototype.join
joinStr(x) == IF x = null THEN <<>> ELSE x

\* Array.prototype.join(sep) on an array of strings / nulls
RECURSIVE join(_, _)
join(arr, sep) ==
    IF arr = <<>> THEN <<>>
    ELSE IF Len(arr) = 1 THEN joinStr(arr[1])
    ELSE joinStr(arr[1]) \o sep \o join(Tail(arr), sep)

\* String.prototype.includes
includes(s, t) ==
    \/ t = <<>>
    \/ \E k \in 0..(Len(s) - Len(t)) :
          /\ s[k + 1] = t[1]
          /\ SubSeq(s, k + 1, k + Len(t)) = t

-----------------------------------------------------------------------------
(* class MyBuilder: constructor                                            *)

checkElementString ==
    <<"e","l","e","m","e","n","t"," ","i","d"," ","c","l","a","s","s"," ",
      "a","t","t","r"," ","p","s","e","u","d","o","C","l","a","s","s"," ",
      "p","s","e","u","d","o","E","l","e","m","e","n","t">>
checkIdString ==
    <<"i","d"," ","c","l","a","s","s"," ","a","t","t","r"," ",
      "p","s","e","u","d","o","C","l","a","s","s"," ",
      "p","s","e","u","d","o","E","l","e","m","e","n","t">>
checkClassString ==
    <<"a","t","t","r"," ","p","s","e","u","d","o","C","l","a","s","s"," ",
      "p","s","e","u","d","o","E","l","e","m","e","n","t">>
checkAttrString ==
    <<"p","s","e","u","d","o","C","l","a","s","s"," ",
      "p","s","e","u","d","o","E","l","e","m","e","n","t">>
checkPseudoString ==
    <<"p","s","e","u","d","o","E","l","e","m","e","n","t">>

uniError ==
    "Element, id and pseudo-element should not occur more then one time inside the selector"
ordError ==
    "Selector parts should be arranged in the following order: element, id, class, attribute, pseudo-class, pseudo-element"

\* the property names of selectorObject, in creation order: the order of
\* Object.keys and Object.values
Keys == <<"element", "id", "class", "attr", "pseudoClass", "pseudoElement">>

\* a property name as a JavaScript string
keyName(k) ==
    CASE k = "element" -> <<"e","l","e","m","e","n","t">>
      [] k = "id" -> <<"i","d">>
      [] k = "class" -> <<"c","l","a","s","s">>
      [] k = "attr" -> <<"a","t","t","r">>
      [] k = "pseudoClass" -> <<"p","s","e","u","d","o","C","l","a","s","s">>
      [] k = "pseudoElement" ->
            <<"p","s","e","u","d","o","E","l","e","m","e","n","t">>

\* new MyBuilder()
MyBuilder ==
    [ selectorText |-> <<>>,
      selectorObject |->
        [ element |-> null, id |-> null, class |-> <<>>, attr |-> <<>>,
          pseudoClass |-> <<>>, pseudoElement |-> null ] ]

-----------------------------------------------------------------------------
(* class MyBuilder: methods                                                *)

\* `throw new Error(msg)`: the call ends with the receiver as it is
Throw(this, msg) == [self |-> this, err |-> msg, ret |-> Undefined]

\* `return this`
ReturnThis(this) == [self |-> this, err |-> None, ret |-> This]

\* Object.values(this.selectorObject)
values(this) == [n \in 1..Len(Keys) |-> this.selectorObject[Keys[n]]]

\* stringify with the prefix behind the fragments
stringify_textLast(this) ==
    [ self |-> this, err |-> None,
      ret |-> join(values(this), <<>>) \o this.selectorText ]

\* stringify that keeps what it rendered as the new prefix
stringify_caching(this) ==
    LET text == this.selectorText \o join(values(this), <<>>)
    IN  [ self |-> [this EXCEPT !.selectorText = text],
          err |-> None, ret |-> text ]

stringify(this) ==
    [ self |-> this, err |-> None,
      ret |-> this.selectorText \o join(values(this), <<>>) ]

getNulls(this) ==
    LET isEmpty(key) == \/ this.selectorObject[key] = null
                        \/ this.selectorObject[key] = <<>>
        names == SelectSeq(Keys, isEmpty)    \* Array.prototype.filter
    IN  join([n \in 1..Len(names) |-> keyName(names[n])], <<" ">>)

\* selector that keeps the text in the element field
selector_asElement(this, value) ==
    ReturnThis([this EXCEPT !.selectorObject.element =
                    joinStr(this.selectorObject.element) \o value])

\* selector that starts the fields over
selector_reset(this, value) ==
    ReturnThis([this EXCEPT !.selectorText = this.selectorText \o value,
                            !.selectorObject = MyBuilder.selectorObject])

selector(this, value) ==
    ReturnThis([this EXCEPT !.selectorText = this.selectorText \o value])

\* element with the two checks in the other order
element_orderFirst(this, value) ==
    IF getNulls(this) # checkElementString THEN Throw(this, ordError)
    ELSE IF this.selectorObject.element # null THEN Throw(this, uniError)
    ELSE ReturnThis([this EXCEPT !.selectorObject.element = value])

element(this, value) ==
    IF this.selectorObject.element # null THEN Throw(this, uniError)
    ELSE IF getNulls(this) # checkElementString THEN Throw(this, ordError)
    ELSE ReturnThis([this EXCEPT !.selectorObject.element = value])

\* id checked against the string of class
id_classCheck(this, value) ==
    IF this.selectorObject.id # null THEN Throw(this, uniError)
    ELSE IF ~includes(getNulls(this), checkClassString)
         THEN Throw(this, ordError)
    ELSE ReturnThis([this EXCEPT !.selectorObject.id = <<"#">> \o value])

\* id that stores the value without the '#'
id_noPrefix(this, value) ==
    IF this.selectorObject.id # null THEN Throw(this, uniError)
    ELSE IF ~includes(getNulls(this), checkIdString)
         THEN Throw(this, ordError)
    ELSE ReturnThis([this EXCEPT !.selectorObject.id = value])

id(this, value) ==
    IF this.selectorObject.id # null THEN Throw(this, uniError)
    ELSE IF ~includes(getNulls(this), checkIdString)
         THEN Throw(this, ordError)
    ELSE ReturnThis([this EXCEPT !.selectorObject.id = <<"#">> \o value])

\* class checked against the string of attr
class_attrCheck(this, value) ==
    IF ~includes(getNulls(this), checkAttrString) THEN Throw(this, ordError)
    ELSE ReturnThis([this EXCEPT !.selectorObject.class =
                        this.selectorObject.class \o <<".">> \o value])

class(this, value) ==
    IF ~includes(getNulls(this), checkClassString) THEN Throw(this, ordError)
    ELSE ReturnThis([this EXCEPT !.selectorObject.class =
                        this.selectorObject.class \o <<".">> \o value])

\* attr that appends before it checks
attr_appendFirst(this, value) ==
    LET appended == [this EXCEPT !.selectorObject.attr =
                        this.selectorObject.attr \o <<"[">> \o value \o <<"]">>]
    IN  IF ~includes(getNulls(this), checkAttrString)
        THEN Throw(appended, ordError)
        ELSE ReturnThis(appended)

attr(this, value) ==
    IF ~includes(getNulls(this), checkAttrString) THEN Throw(this, ordError)
    ELSE ReturnThis([this EXCEPT !.selectorObject.attr =
                        this.selectorObject.attr \o <<"[">> \o value \o <<"]">>])

\* pseudoClass checked against the string of attr, which names pseudoClass
pseudoClass_once(this, value) ==
    IF ~includes(getNulls(this), checkAttrString) THEN Throw(this, ordError)
    ELSE ReturnThis([this EXCEPT !.selectorObject.pseudoClass =
                        this.selectorObject.pseudoClass \o <<":">> \o value])

\* pseudoClass without its check
pseudoClass_unchecked(this, value) ==
    ReturnThis([this EXCEPT !.selectorObject.pseudoClass =
                    this.selectorObject.pseudoClass \o <<":">> \o value])

pseudoClass(this, value) ==
    IF ~includes(getNulls(this), checkPseudoString) THEN Throw(this, ordError)
    ELSE ReturnThis([this EXCEPT !.selectorObject.pseudoClass =
                        this.selectorObject.pseudoClass \o <<":">> \o value])

\* pseudoElement with the two checks in the other order
pseudoElement_orderFirst(this, value) ==
    IF ~includes(getNulls(this), checkPseudoString) THEN Throw(this, ordError)
    ELSE IF this.selectorObject.pseudoElement # null
         THEN Throw(this, uniError)
    ELSE ReturnThis([this EXCEPT !.selectorObject.pseudoElement =
                        <<":", ":">> \o value])

\* pseudoElement that appends like pseudoClass, without a check
pseudoElement_append(this, value) ==
    ReturnThis([this EXCEPT !.selectorObject.pseudoElement =
                    joinStr(this.selectorObject.pseudoElement)
                        \o <<":", ":">> \o value])

pseudoElement(this, value) ==
    IF this.selectorObject.pseudoElement # null THEN Throw(this, uniError)
    ELSE IF ~includes(getNulls(this), checkPseudoString)
         THEN Throw(this, ordError)
    ELSE ReturnThis([this EXCEPT !.selectorObject.pseudoElement =
                        <<":", ":">> \o value])

\* the call this[c](value) of one of the six category setters
setter(c, this, value) ==
    CASE c = "element" -> element(this, value)
      [] c = "id" -> id(this, value)
      [] c = "class" -> class(this, value)
      [] c = "attr" -> attr(this, value)
      [] c = "pseudoClass" -> pseudoClass(this, value)
      [] c = "pseudoElement" -> pseudoElement(this, value)

-----------------------------------------------------------------------------
(* Instances live on a heap; a call ends with the heap it leaves, the      *)
(* error thrown, the string returned (ret) or the instance returned (ref)  *)

\* `new MyBuilder()`
new(h) == [heap |-> Append(h, MyBuilder), ref |-> Len(h) + 1]

\* call on instances that all share one selectorText and selectorObject
call_shared(h, ref, r) ==
    [ heap |-> [n \in DOMAIN h |-> r.self],
      err |-> r.err,
      ret |-> r.ret,
      ref |-> IF r.ret = This THEN ref ELSE 0 ]

\* call whose `return this` hands out a copy of the receiver and leaves the
\* receiver as it was
call_copy(h, ref, r) ==
    [ heap |-> IF r.ret = This THEN Append(h, r.self) ELSE h,
      err |-> r.err,
      ret |-> r.ret,
      ref |-> IF r.ret = This THEN Len(h) + 1 ELSE 0 ]

\* h[ref].method(...), where r is what the method does on that receiver
call(h, ref, r) ==
    [ heap |-> [h EXCEPT ![ref] = r.self],
      err |-> r.err,
      ret |-> r.ret,
      ref |-> IF r.ret = This THEN ref ELSE 0 ]

-----------------------------------------------------------------------------
(* const cssSelectorBuilder: the facade                                    *)

\* new MyBuilder().stringify(): the temporary instance is unreachable once
\* the string is returned
cssSelectorBuilder_stringify(h) ==
    LET n == new(h)
        r == call(n.heap, n.ref, stringify(n.heap[n.ref]))
    IN  [r EXCEPT !.heap = h]

\* new MyBuilder()[c](value), for the six facade methods element, id, class,
\* attr, pseudoClass and pseudoElement
cssSelectorBuilder_setter(c, h, value) ==
    LET n == new(h)
    IN  call(n.heap, n.ref, setter(c, n.heap[n.ref], value))

cssSelectorBuilder_element(h, value) ==
    cssSelectorBuilder_setter("element", h, value)

cssSelectorBuilder_id(h, value) ==
    cssSelectorBuilder_setter("id", h, value)

cssSelectorBuilder_class(h, value) ==
    cssSelectorBuilder_setter("class", h, value)

cssSelectorBuilder_attr(h, value) ==
    cssSelectorBuilder_setter("attr", h, value)

cssSelectorBuilder_pseudoClass(h, value) ==
    cssSelectorBuilder_setter("pseudoClass", h, value)

cssSelectorBuilder_pseudoElement(h, value) ==
    cssSelectorBuilder_setter("pseudoElement", h, value)

\* combine that calls selector() on selector1 instead of a new instance
combine_onSelector1(h, selector1, combinator, selector2) ==
    LET s1 == call(h, selector1, stringify(h[selector1]))
        s2 == call(s1.heap, selector2, stringify(s1.heap[selector2]))
    IN  call(s2.heap, selector1,
             selector(s2.heap[selector1],
                      s1.ret \o <<" ">> \o combinator \o <<" ">> \o s2.ret))

\* combine without the spaces around the combinator
combine_noSpaces(h, selector1, combinator, selector2) ==
    LET s1 == call(h, selector1, stringify(h[selector1]))
        s2 == call(s1.heap, selector2, stringify(s1.heap[selector2]))
        n == new(s2.heap)
    IN  call(n.heap, n.ref,
             selector(n.heap[n.ref], s1.ret \o combinator \o s2.ret))

\* combine that takes the fragments out of selector1
combine_moving(h, selector1, combinator, selector2) ==
    LET s1 == call(h, selector1, stringify(h[selector1]))
        s2 == call(s1.heap, selector2, stringify(s1.heap[selector2]))
        n == new([s2.heap EXCEPT ![selector1] = MyBuilder])
    IN  call(n.heap, n.ref,
             selector(n.heap[n.ref],
                      s1.ret \o <<" ">> \o combinator \o <<" ">> \o s2.ret))

\* the template literal is evaluated first, left to right, then the new
\* instance is created and selector() is called on it
combine(h, selector1, combinator, selector2) ==
    LET s1 == call(h, selector1, stringify(h[selector1]))
        s2 == call(s1.heap, selector2, stringify(s1.heap[selector2]))
        n == new(s2.heap)
    IN  call(n.heap, n.ref,
             selector(n.heap[n.ref],
                      s1.ret \o <<" ">> \o combinator \o <<" ">> \o s2.ret))

-----------------------------------------------------------------------------
(* Calls on the instances of the heap                                      *)

Categories == {Keys[n] : n \in 1..Len(Keys)}

Instances == DOMAIN heap

\* accepted setter calls so far, over all instances
RECURSIVE TotalCalls(_)
TotalCalls(l) == IF l = <<>> THEN 0 ELSE Len(Head(l)) + TotalCalls(Tail(l))

\* the fragments and the prefix characters that calls put on instance i
Size(i) == Len(log[i]) + Len(heap[i].selectorText)

\* the setter calls accepted and the combinations made so far
Ops ==
    TotalCalls(log) + Cardinality({n \in DOMAIN made : made[n].by = "combine"})

\* how an instance came to be
ByNew == [by |-> "new", s1 |-> 0, c |-> <<>>, s2 |-> 0]
ByFacade == [by |-> "facade", s1 |-> 0, c |-> <<>>, s2 |-> 0]
ByCombine(i, c, j) == [by |-> "combine", s1 |-> i, c |-> c, s2 |-> j]

\* what the last call was and how it ended
Last(op, on, r) ==
    [op |-> op, on |-> on, err |-> r.err, ret |-> r.ret, ref |-> r.ref]

\* heap[i][c](v): the receiver takes the state the call ends with, the
\* history grows when the call returned; a call that returns is explored
\* while there is room for it
Invoke(i, c, v, room) ==
    LET r == call(heap, i, setter(c, heap[i], v)) IN
    /\ r.err = None => room
    /\ heap' = r.heap
    /\ log' = IF r.err = None
              THEN [log EXCEPT ![i] = Append(@, [cat |-> c, value |-> v])]
              ELSE log
    /\ last' = Last(c, i, r)
    /\ UNCHANGED made

CallElement(i, V, room) == \E v \in V : Invoke(i, "element", v, room)

CallId(i, V, room) == \E v \in V : Invoke(i, "id", v, room)

CallClass(i, V, room) == \E v \in V : Invoke(i, "class", v, room)

CallAttr(i, V, room) == \E v \in V : Invoke(i, "attr", v, room)

CallPseudoClass(i, V, room) == \E v \in V : Invoke(i, "pseudoClass", v, room)

CallPseudoElement(i, V, room) == \E v \in V : Invoke(i, "pseudoElement", v, room)

CallSelector(i, V) ==
    \E v \in V :
        LET r == call(heap, i, selector(heap[i], v)) IN
        /\ Size(i) + Len(v) <= MaxCalls
        /\ heap' = r.heap
        /\ last' = Last("selector", i, r)
        /\ UNCHANGED <<log, made>>

CallStringify(i) ==
    LET r == call(heap, i, stringify(heap[i])) IN
    /\ heap' = r.heap
    /\ last' = Last("stringify", i, r)
    /\ UNCHANGED <<log, made>>

-----------------------------------------------------------------------------
(* Spec: one instance, `new MyBuilder()`, under any sequence of calls      *)

Init ==
    /\ heap = <<MyBuilder>>
    /\ log = << <<>> >>
    /\ made = <<ByNew>>
    /\ last = [op |-> "new", on |-> 1, err |-> None, ret |-> This, ref |-> 1]

\* the exploration stops at MaxCalls fragments and prefix characters
Bounded(i) == Size(i) < MaxCalls

Next ==
    \/ \E i \in Instances : CallElement(i, Values, Bounded(i))
    \/ \E i \in Instances : CallId(i, Values, Bounded(i))
    \/ \E i \in Instances : CallClass(i, Values, Bounded(i))
    \/ \E i \in Instances : CallAttr(i, Values, Bounded(i))
    \/ \E i \in Instances : CallPseudoClass(i, Values, Bounded(i))
    \/ \E i \in Instances : CallPseudoElement(i, Values, Bounded(i))
    \/ \E i \in Instances : CallSelector(i, Values)
    \/ \E i \in Instances : CallStringify(i)

Spec == Init /\ [][Next]_vars

-----------------------------------------------------------------------------
(* FacadeSpec: the instances made through cssSelectorBuilder, chained      *)
(* calls on them, and combine                                              *)

FacadeInit ==
    /\ heap = <<>>
    /\ log = <<>>
    /\ made = <<>>
    /\ last = [op |-> "load", on |-> 0, err |-> None, ret |-> Undefined,
               ref |-> 0]

\* the exploration stops at MaxBuilders instances and MaxOps calls
Room == Len(heap) < MaxBuilders /\ Ops < MaxOps

\* what a facade call adds to the history of the instance it made
Accepted(r, c, v) ==
    IF r.err = None THEN <<[cat |-> c, value |-> v]>> ELSE <<>>

BuilderElement(v) ==
    LET r == cssSelectorBuilder_element(heap, v) IN
    /\ Room
    /\ heap' = r.heap
    /\ log' = Append(log, Accepted(r, "element", v))
    /\ made' = Append(made, ByFacade)
    /\ last' = Last("element", Len(heap) + 1, r)

BuilderId(v) ==
    LET r == cssSelectorBuilder_id(heap, v) IN
    /\ Room
    /\ heap' = r.heap
    /\ log' = Append(log, Accepted(r, "id", v))
    /\ made' = Append(made, ByFacade)
    /\ last' = Last("id", Len(heap) + 1, r)

BuilderClass(v) ==
    LET r == cssSelectorBuilder_class(heap, v) IN
    /\ Room
    /\ heap' = r.heap
    /\ log' = Append(log, Accepted(r, "class", v))
    /\ made' = Append(made, ByFacade)
    /\ last' = Last("class", Len(heap) + 1, r)

BuilderAttr(v) ==
    LET r == cssSelectorBuilder_attr(heap, v) IN
    /\ Room
    /\ heap' = r.heap
    /\ log' = Append(log, Accepted(r, "attr", v))
    /\ made' = Append(made, ByFacade)
    /\ last' = Last("attr", Len(heap) + 1, r)

BuilderPseudoClass(v) ==
    LET r == cssSelectorBuilder_pseudoClass(heap, v) IN
    /\ Room
    /\ heap' = r.heap
    /\ log' = Append(log, Accepted(r, "pseudoClass", v))
    /\ made' = Append(made, ByFacade)
    /\ last' = Last("pseudoClass", Len(heap) + 1, r)

BuilderPseudoElement(v) ==
    LET r == cssSelectorBuilder_pseudoElement(heap, v) IN
    /\ Room
    /\ heap' = r.heap
    /\ log' = Append(log, Accepted(r, "pseudoElement", v))
    /\ made' = Append(made, ByFacade)
    /\ last' = Last("pseudoElement", Len(heap) + 1, r)

BuilderStringify ==
    LET r == cssSelectorBuilder_stringify(heap) IN
    /\ heap' = r.heap
    /\ last' = Last("stringify", 0, r)
    /\ UNCHANGED <<log, made>>

BuilderCombine ==
    \E i \in Instances, j \in Instances, c \in Combinators :
        LET r == combine(heap, i, c, j) IN
        /\ Room
        /\ heap' = r.heap
        /\ log' = Append(log, <<>>)
        /\ made' = Append(made, ByCombine(i, c, j))
        /\ last' = Last("combine", Len(heap) + 1, r)

FacadeNext ==
    \/ \E v \in Names : BuilderElement(v)
    \/ \E v \in Names : BuilderId(v)
    \/ \E v \in Names : BuilderClass(v)
    \/ \E v \in Names : BuilderAttr(v)
    \/ \E v \in Names : BuilderPseudoClass(v)
    \/ \E v \in Names : BuilderPseudoElement(v)
    \/ BuilderStringify
    \/ BuilderCombine
    \/ \E i \in Instances : CallElement(i, Names, Ops < MaxOps)
    \/ \E i \in Instances : CallId(i, Names, Ops < MaxOps)
    \/ \E i \in Instances : CallClass(i, Names, Ops < MaxOps)
    \/ \E i \in Instances : CallAttr(i, Names, Ops < MaxOps)
    \/ \E i \in Instances : CallPseudoClass(i, Names, Ops < MaxOps)
    \/ \E i \in Instances : CallPseudoElement(i, Names, Ops < MaxOps)
    \/ \E i \in Instances : CallStringify(i)

FacadeSpec == FacadeInit /\ [][FacadeNext]_vars

-----------------------------------------------------------------------------
(* Vocabulary of the claims, read off the history of accepted calls        *)

\* position in the order element < id < class < attr < pseudoClass <
\* pseudoElement
Rank(c) == CHOOSE n \in 1..Len(Keys) : Keys[n] = c

Singular == {"element", "id", "pseudoElement"}

Repeatable == {"class", "attr", "pseudoClass"}

\* category c has received an accepted call on instance i
Touched(i, c) == \E n \in DOMAIN log[i] : log[i][n].cat = c

\* a category strictly after c has received an accepted call on instance i
LaterTouched(i, c) ==
    \E n \in DOMAIN log[i] : Rank(log[i][n].cat) > Rank(c)

\* the highest category that received an accepted call, 0 when none did
Highest(l) ==
    IF l = <<>> THEN 0
    ELSE CHOOSE r \in 1..Len(Keys) :
            /\ \E n \in DOMAIN l : Rank(l[n].cat) = r
            /\ \A n \in DOMAIN l : Rank(l[n].cat) <= r

\* the text a call of category c with argument v contributes
Fragment(c, v) ==
    CASE c = "element" -> v
      [] c = "id" -> <<"#">> \o v
      [] c = "class" -> <<".">> \o v
      [] c = "attr" -> <<"[">> \o v \o <<"]">>
      [] c = "pseudoClass" -> <<":">> \o v
      [] c = "pseudoElement" -> <<":", ":">> \o v

\* the fragments of the calls of category c, in the order they were made
RECURSIVE FragmentsOf(_, _)
FragmentsOf(l, c) ==
    IF l = <<>> THEN <<>>
    ELSE (IF Head(l).cat = c THEN Fragment(c, Head(l).value) ELSE <<>>)
            \o FragmentsOf(Tail(l), c)

\* the fragments of a history, category by category
Rendered(l) ==
    FragmentsOf(l, "element") \o FragmentsOf(l, "id")
        \o FragmentsOf(l, "class") \o FragmentsOf(l, "attr")
        \o FragmentsOf(l, "pseudoClass") \o FragmentsOf(l, "pseudoElement")

\* a field of selectorObject read as text
Text(x) == IF x = null THEN <<>> ELSE x

\* all inputs of a setter call
Args == Values \cup Names

-----------------------------------------------------------------------------
(* C1: in every reachable state and for every category c, the setter of c  *)
(* throws exactly when c is element, id or pseudoElement and was already   *)
(* set on the instance, or a category strictly after c already received an *)
(* accepted call on it; otherwise the call returns, and the instance then  *)
(* holds the fragment in the field of c and is otherwise as before.        *)
C1_RejectedExactlyWhen ==
    \A i \in Instances, c \in Categories, v \in Args :
        LET r == setter(c, heap[i], v) IN
        /\ (r.err # None) <=>
              \/ c \in Singular /\ Touched(i, c)
              \/ LaterTouched(i, c)
        /\ r.err = None =>
              /\ r.self.selectorObject[c] =
                    Text(heap[i].selectorObject[c]) \o Fragment(c, v)
              /\ \A k \in Categories \ {c} :
                    r.self.selectorObject[k] = heap[i].selectorObject[k]
              /\ r.self.selectorText = heap[i].selectorText

\* a class call was thrown out because attr had been used, and an attr call
\* went through on the same instance before
C1_Witness ==
    /\ last.op = "class" /\ last.err = ordError
    /\ Touched(last.on, "id") /\ Touched(last.on, "attr")
    /\ ~Touched(last.on, "pseudoClass")

-----------------------------------------------------------------------------
(* C2: once element has been set on an instance, every further element     *)
(* call on it throws the uniqueness error, whatever was called in between; *)
(* the same for id and for pseudoElement.                                  *)
C2_SecondCallIsUniquenessError ==
    \A i \in Instances, c \in Singular, v \in Args :
        Touched(i, c) => setter(c, heap[i], v).err = uniError

\* element was called again after element and a later category
C2_Witness ==
    /\ last.op = "element" /\ last.err = uniError
    /\ Touched(last.on, "element") /\ Touched(last.on, "class")

-----------------------------------------------------------------------------
(* C3 as stated: after an accepted class call, an id call and an element   *)
(* call on the same instance throw the ordering error.                     *)
C3_AfterClassIsOrderingError ==
    \A i \in Instances, v \in Args :
        Touched(i, "class") =>
            /\ id(heap[i], v).err = ordError
            /\ element(heap[i], v).err = ordError

(* C3 amended: after an accepted class call, an id call on the same        *)
(* instance throws; the error is the ordering error when id was not set    *)
(* on the instance before, and the uniqueness error when it was.  The same *)
(* for element.                                                            *)
C3_AfterClassThrows ==
    \A i \in Instances, v \in Args :
        Touched(i, "class") =>
            /\ id(heap[i], v).err =
                  IF Touched(i, "id") THEN uniError ELSE ordError
            /\ element(heap[i], v).err =
                  IF Touched(i, "element") THEN uniError ELSE ordError

\* id was called after class on an instance without an id and was thrown
\* out for the order
C3_Witness ==
    /\ last.op = "id" /\ last.err = ordError
    /\ Touched(last.on, "class") /\ ~Touched(last.on, "id")

-----------------------------------------------------------------------------
(* C4: a step in which a setter call throws changes no instance: the same  *)
(* selectorText and fields, hence the same stringify() result and the same *)
(* outcome of every later setter call.                                     *)
C4_RejectedCallChangesNothing ==
    [][ (last'.op \in Categories /\ last'.err # None) =>
          /\ heap' = heap
          /\ \A i \in Instances :
                /\ stringify(heap'[i]).ret = stringify(heap[i]).ret
                /\ \A c \in Categories, v \in Args :
                      setter(c, heap'[i], v).err = setter(c, heap[i], v).err
      ]_vars

\* a setter call has thrown on an instance that holds two fragments
C4_Witness ==
    /\ last.op \in Categories /\ last.err # None
    /\ Len(log[last.on]) >= 2

-----------------------------------------------------------------------------
(* C5: stringify() returns selectorText followed by the fragments of the   *)
(* accepted calls, category by category and within a category in call      *)
(* order; an instance nothing was called on, and the facade's stringify(), *)
(* give the empty string.                                                  *)
C5_StringifyConcatenates ==
    /\ \A i \in Instances :
          /\ stringify(heap[i]).ret = heap[i].selectorText \o Rendered(log[i])
          /\ (log[i] = <<>> /\ heap[i].selectorText = <<>>) =>
                stringify(heap[i]).ret = <<>>
    /\ cssSelectorBuilder_stringify(heap).ret = <<>>
    /\ last.op = "stringify" /\ last.on \in Instances =>
          last.ret = heap[last.on].selectorText \o Rendered(log[last.on])

\* stringify() has returned 'a#a..a' after
\* selector('a').id('a').class('').class('a')
C5_Witness ==
    /\ last.op = "stringify"
    /\ heap[last.on].selectorText = <<"a">>
    /\ log[last.on] = << [cat |-> "id", value |-> <<"a">>],
                         [cat |-> "class", value |-> <<>>],
                         [cat |-> "class", value |-> <<"a">>] >>
    /\ last.ret = <<"a", "#", "a", ".", ".", "a">>

-----------------------------------------------------------------------------
(* C6: on an instance whose highest category used so far is class, a class *)
(* call with any argument returns and puts its fragment behind the class   *)
(* fragments already there; the same for attr and for pseudoClass.         *)
C6_Repeatable ==
    \A i \in Instances, c \in Repeatable, v \in Args :
        Highest(log[i]) = Rank(c) =>
            LET r == setter(c, heap[i], v) IN
            /\ r.err = None
            /\ r.self.selectorObject[c] =
                  FragmentsOf(log[i], c) \o Fragment(c, v)
            /\ stringify(r.self).ret =
                  heap[i].selectorText
                    \o Rendered(Append(log[i], [cat |-> c, value |-> v]))

\* class('a').class('a').class('') was accepted and holds '.a.a.'
C6_Witness ==
    /\ last.op = "class" /\ last.err = None
    /\ log[last.on] = << [cat |-> "class", value |-> <<"a">>],
                         [cat |-> "class", value |-> <<"a">>],
                         [cat |-> "class", value |-> <<>>] >>
    /\ heap[last.on].selectorObject.class = <<".", "a", ".", "a", ".">>

-----------------------------------------------------------------------------
(* C9: a stringify() step changes no instance, so every setter call ends   *)
(* as it would have before it, and a stringify() that directly follows a   *)
(* stringify() on the same instance returns the same string.               *)
C9_StringifyIsPure ==
    [][ (last'.op = "stringify" /\ last'.on \in Instances) =>
          /\ heap' = heap
          /\ \A c \in Categories, v \in Args :
                setter(c, heap'[last'.on], v).err
                    = setter(c, heap[last'.on], v).err
          /\ (last.op = "stringify" /\ last.on = last'.on) =>
                last'.ret = last.ret
      ]_vars

\* stringify() has returned on an instance with fragments and a prefix
C9_Witness ==
    /\ last.op = "stringify" /\ last.on \in Instances
    /\ Len(log[last.on]) >= 2
    /\ last.ret = stringify(heap[last.on]).ret
    /\ last.ret # <<>>

-----------------------------------------------------------------------------
(* C10: on every instance, the accepted setter calls are in non-decreasing *)
(* category order and contain at most one element call, one id call and    *)
(* one pseudoElement call.                                                 *)
C10_HistoryOrdered ==
    \A i \in Instances :
        /\ \A m \in DOMAIN log[i], n \in DOMAIN log[i] :
              m < n => Rank(log[i][m].cat) <= Rank(log[i][n].cat)
        /\ \A c \in Singular :
              Cardinality({n \in DOMAIN log[i] : log[i][n].cat = c}) <= 1

\* element, id and pseudoElement were each accepted once on one instance
C10_Witness ==
    /\ last.op = "pseudoElement" /\ last.err = None
    /\ Touched(last.on, "element") /\ Touched(last.on, "id")

-----------------------------------------------------------------------------
(* C7: combine(s1, c, s2) returns an instance that did not exist before,   *)
(* hence neither s1 nor s2; its selectorText is s1.stringify(), a space,   *)
(* c, a space, s2.stringify(), its six fields are those of a new instance  *)
(* and its stringify() is that text; with the space as combinator three    *)
(* spaces separate the two renderings.                                     *)
C7_CombineMakesPrefix ==
    /\ \A i \in Instances, j \in Instances, c \in Combinators :
          LET r == combine(heap, i, c, j)
              t1 == heap[i].selectorText \o Rendered(log[i])
              t2 == heap[j].selectorText \o Rendered(log[j])
          IN  /\ r.err = None
              /\ r.ref \notin Instances
              /\ r.ref \in DOMAIN r.heap
              /\ r.heap[r.ref].selectorText = t1 \o <<" ">> \o c \o <<" ">> \o t2
              /\ r.heap[r.ref].selectorObject = MyBuilder.selectorObject
              /\ stringify(r.heap[r.ref]).ret = t1 \o <<" ">> \o c \o <<" ">> \o t2
              /\ c = <<" ">> =>
                    stringify(r.heap[r.ref]).ret = t1 \o <<" ", " ", " ">> \o t2
    /\ last.op = "combine" =>
          LET m == made[last.ref] IN
          /\ last.ref = Len(heap)
          /\ m.by = "combine"
          /\ last.ref \notin {m.s1, m.s2}
          /\ heap[last.ref].selectorText =
                stringify(heap[m.s1]).ret \o <<" ">> \o m.c \o <<" ">>
                    \o stringify(heap[m.s2]).ret
          /\ heap[last.ref].selectorObject = MyBuilder.selectorObject

\* combine(element('a'), ' ', id('a')) has returned an instance that
\* renders 'a   #a'
C7_Witness ==
    /\ last.op = "combine"
    /\ made[last.ref].c = <<" ">>
    /\ made[last.ref].s1 # made[last.ref].s2
    /\ heap[last.ref].selectorText = <<"a", " ", " ", " ", "#", "a">>
    /\ stringify(heap[last.ref]).ret = <<"a", " ", " ", " ", "#", "a">>

-----------------------------------------------------------------------------
(* C8: for all instances A, B, C and combinators c1, c2, both              *)
(* combine(combine(A, c1, B), c2, C) and combine(A, c1, combine(B, c2, C)) *)
(* render A.stringify() ' ' c1 ' ' B.stringify() ' ' c2 ' ' C.stringify(). *)
C8_NestedCombineFlattens ==
    \A A \in Instances, B \in Instances, C \in Instances,
       c1 \in Combinators, c2 \in Combinators :
        LET flat == stringify(heap[A]).ret \o <<" ">> \o c1 \o <<" ">>
                        \o stringify(heap[B]).ret \o <<" ">> \o c2 \o <<" ">>
                        \o stringify(heap[C]).ret
            ab == combine(heap, A, c1, B)
            ab_c == combine(ab.heap, ab.ref, c2, C)
            bc == combine(heap, B, c2, C)
            a_bc == combine(bc.heap, A, c1, bc.ref)
        IN  /\ stringify(ab_c.heap[ab_c.ref]).ret = flat
            /\ stringify(a_bc.heap[a_bc.ref]).ret = flat

\* a combination of a combination has been made, with different
\* combinators, and renders 'a + a   a'
C8_Witness ==
    /\ last.op = "combine"
    /\ made[made[last.ref].s1].by = "combine"
    /\ made[made[last.ref].s1].c # made[last.ref].c
    /\ stringify(heap[last.ref]).ret =
          <<"a", " ", "+", " ", "a", " ", " ", " ", "a">>

-----------------------------------------------------------------------------
(* C11: every facade call of a category setter makes an instance that did  *)
(* not exist, on which the call returns and which is a new MyBuilder with  *)
(* that one fragment, whatever the other instances hold; and every step,   *)
(* whether its call returns or throws, leaves every instance other than    *)
(* the receiver as it was, with the same stringify() result.               *)
C11_InstancesShareNothing ==
    /\ [](\A c \in Categories, v \in Args :
            LET r == cssSelectorBuilder_setter(c, heap, v) IN
            /\ r.err = None
            /\ r.ref \notin Instances
            /\ r.heap[r.ref] = setter(c, MyBuilder, v).self
            /\ stringify(r.heap[r.ref]).ret = Fragment(c, v)
            /\ \A j \in Instances : r.heap[j] = heap[j])
    /\ [][ /\ \A j \in Instances \ {last'.on} :
                /\ heap'[j] = heap[j]
                /\ stringify(heap'[j]).ret = stringify(heap[j]).ret
           /\ (last'.op \in Categories /\ last'.on \notin Instances) =>
                /\ last'.err = None
                /\ Len(log'[last'.on]) = 1
                /\ heap'[last'.on] =
                      setter(last'.op, MyBuilder, log'[last'.on][1].value).self
         ]_vars

\* builder.element('a') was accepted twice, and on the first of the two
\* instances a chained call has thrown since
C11_Witness ==
    /\ Len(heap) >= 2
    /\ made[1].by = "facade" /\ made[2].by = "facade"
    /\ heap[1].selectorObject.element = <<"a">>
    /\ heap[2].selectorObject.element = <<"a">>
    /\ last.on = 1 /\ last.err = uniError

-----------------------------------------------------------------------------
(* C12: every category-setter call that returns, returns the instance it   *)
(* was called on: no instance is created, the receiver holds the new       *)
(* fragment behind those of the calls before, and after a chain of calls   *)
(* it renders the fragments of the whole chain.                            *)
C12_SetterReturnsThis ==
    /\ (last.op \in Categories /\ last.err = None) =>
          /\ last.ret = This
          /\ last.ref = last.on
          /\ Len(heap) = Len(log)
          /\ stringify(heap[last.ref]).ret =
                heap[last.ref].selectorText \o Rendered(log[last.on])
    /\ \A i \in Instances, c \in Categories, v \in Args :
          LET r == call(heap, i, setter(c, heap[i], v)) IN
          r.err = None =>
              /\ r.ret = This
              /\ r.ref = i
              /\ DOMAIN r.heap = DOMAIN heap
              /\ stringify(r.heap[r.ref]).ret =
                    heap[i].selectorText
                      \o Rendered(Append(log[i], [cat |-> c, value |-> v]))

\* the chain element('a').id('a').class('a') has returned the instance it
\* started on, which renders 'a#a.a'
C12_Witness ==
    /\ last.op = "class" /\ last.err = None /\ last.ref = last.on
    /\ log[last.on] = << [cat |-> "element", value |-> <<"a">>],
                         [cat |-> "id", value |-> <<"a">>],
                         [cat |-> "class", value |-> <<"a">>] >>
    /\ stringify(heap[last.ref]).ret = <<"a", "#", "a", ".", "a">>

-----------------------------------------------------------------------------
(* The reference of C13: a pointer to the highest category touched so far, *)
(* a flag per singular category, and the fragments kept per category       *)

PointerInit ==
    [ highest |-> 0, set |-> {}, calls |-> 0,
      parts |-> [c \in Categories |-> <<>>] ]

\* a call is rejected when its category is behind the pointer, or is
\* singular and flagged
PointerAccepts(p, c) ==
    /\ Rank(c) >= p.highest
    /\ c \in Singular => c \notin p.set

PointerCall(p, c, v) ==
    IF PointerAccepts(p, c)
    THEN [ highest |-> Rank(c),
           set |-> IF c \in Singular THEN p.set \cup {c} ELSE p.set,
           calls |-> p.calls + 1,
           parts |-> [p.parts EXCEPT ![c] = @ \o Fragment(c, v)] ]
    ELSE p

\* the reference after a sequence of calls
RECURSIVE PointerRun(_)
PointerRun(l) ==
    IF l = <<>> THEN PointerInit
    ELSE LET n == Len(l) IN
         PointerCall(PointerRun(SubSeq(l, 1, n - 1)), l[n].cat, l[n].value)

PointerRender(p) ==
    p.parts["element"] \o p.parts["id"] \o p.parts["class"]
        \o p.parts["attr"] \o p.parts["pseudoClass"]
        \o p.parts["pseudoElement"]

(* C13: after every sequence of setter calls, with the empty string among  *)
(* the arguments, the reference that replays the calls which returned has  *)
(* accepted each of them, accepts the next call of every category exactly  *)
(* when the setter returns on the instance, and renders what stringify()   *)
(* renders behind selectorText.                                            *)
C13_PointerEquivalent ==
    \A i \in Instances :
        LET p == PointerRun(log[i]) IN
        /\ p.calls = Len(log[i])
        /\ \A c \in Categories, v \in Args :
              PointerAccepts(p, c) <=> setter(c, heap[i], v).err = None
        /\ stringify(heap[i]).ret = heap[i].selectorText \o PointerRender(p)
        /\ (last.op \in Categories /\ last.on = i /\ last.err # None) =>
              ~PointerAccepts(p, last.op)

\* element('') was accepted, so that the element field still counts as
\* empty in getNulls(), id('') followed, and a further element call was
\* thrown out
C13_Witness ==
    /\ last.op = "element" /\ last.err # None
    /\ heap[last.on].selectorObject.element = <<>>
    /\ includes(getNulls(heap[last.on]), keyName("element"))
    /\ log[last.on] = << [cat |-> "element", value |-> <<>>],
                         [cat |-> "id", value |-> <<>>] >>
    /\ PointerRun(log[last.on]).highest = Rank("id")

-----------------------------------------------------------------------------
(* C14: in no reachable state does a pseudoElement call throw the ordering *)
(* error: it returns on every instance whose pseudoElement field is null,  *)
(* whatever other categories were used, and throws the uniqueness error on *)
(* every other instance.                                                   *)
C14_PseudoElementOnlyUniqueness ==
    /\ \A i \in Instances, v \in Args :
          LET r == pseudoElement(heap[i], v) IN
          /\ r.err # ordError
          /\ ~Touched(i, "pseudoElement") =>
                /\ heap[i].selectorObject.pseudoElement = null
                /\ r.err = None
          /\ Touched(i, "pseudoElement") => r.err = uniError
    /\ last.op = "pseudoElement" => last.err \in {None, uniError}

\* pseudoElement has returned on an instance on which class, attr and
\* pseudoClass had been used
C14_Witness ==
    /\ last.op = "pseudoElement" /\ last.err = None
    /\ Touched(last.on, "class") /\ Touched(last.on, "attr")
    /\ Touched(last.on, "pseudoClass")

-----------------------------------------------------------------------------
(* C15: on every instance, the element field holds the argument of the one *)
(* element call that returned, for as long as the instance exists, and no  *)
(* step (a setter call that returns or throws, stringify(), combine with   *)
(* the instance as an operand) changes a field of element, id or           *)
(* pseudoElement that is no longer null; the same for selector().          *)
C15_SingularFieldsImmutable ==
    /\ [](\A i \in Instances, c \in Singular :
            /\ Touched(i, c) <=> heap[i].selectorObject[c] # null
            /\ \A n \in DOMAIN log[i] :
                  log[i][n].cat = c =>
                      heap[i].selectorObject[c] = Fragment(c, log[i][n].value)
            /\ \A v \in Args :
                  heap[i].selectorObject[c] # null =>
                      selector(heap[i], v).self.selectorObject[c]
                          = heap[i].selectorObject[c])
    /\ [][ \A i \in Instances, c \in Singular :
              heap[i].selectorObject[c] # null =>
                  heap'[i].selectorObject[c] = heap[i].selectorObject[c]
         ]_vars

\* an instance with element 'a' was an operand of combine, and then an
\* element call on it has thrown: its element is still 'a'
C15_Witness ==
    /\ last.op = "element" /\ last.err = uniError
    /\ heap[last.on].selectorObject.element = <<"a">>
    /\ \E k \in Instances :
          made[k].by = "combine" /\ last.on \in {made[k].s1, made[k].s2}

-----------------------------------------------------------------------------
(* C16: combine(s1, c, s2) leaves s1, s2 and every other instance as they  *)
(* were, and a setter call made afterwards on an instance changes the      *)
(* stringify() result of no instance that was combined from it.            *)
C16_CombineTakesSnapshot ==
    /\ [](\A i \in Instances, j \in Instances, c \in Combinators :
            LET r == combine(heap, i, c, j) IN
            \A k \in Instances :
                /\ r.heap[k] = heap[k]
                /\ stringify(r.heap[k]).ret = stringify(heap[k]).ret)
    /\ [][ /\ last'.op = "combine" =>
                \A k \in Instances : heap'[k] = heap[k]
           /\ (last'.op \in Categories /\ last'.on \in Instances) =>
                \A k \in Instances :
                    (made[k].by = "combine"
                        /\ last'.on \in {made[k].s1, made[k].s2}) =>
                        stringify(heap'[k]).ret = stringify(heap[k]).ret
         ]_vars

\* an instance combined from element('a') with itself still renders
\* 'a + a' after id('a') has returned on that operand, which now renders
\* 'a#a'
C16_Witness ==
    /\ last.op = "id" /\ last.err = None
    /\ stringify(heap[last.on]).ret = <<"a", "#", "a">>
    /\ \E k \in Instances :
          /\ made[k].by = "combine"
          /\ made[k].s1 = last.on /\ made[k].s2 = last.on
          /\ stringify(heap[k]).ret = <<"a", " ", "+", " ", "a">>

-----------------------------------------------------------------------------
(* C17: on the instance that combine returns, whatever categories its      *)
(* operands used, the setter of every category returns, and the instance   *)
(* then renders the combined text directly followed by the fragment; on    *)
(* every instance made by combine the setters throw by the calls made on   *)
(* that instance alone, and it renders its selectorText directly followed  *)
(* by the fragments of these calls.                                        *)
C17_CombinedStartsEmpty ==
    /\ \A i \in Instances, j \in Instances, c \in Combinators :
          LET r == combine(heap, i, c, j)
              n == r.heap[r.ref]
          IN  /\ getNulls(n) = checkElementString
              /\ \A cat \in Categories, v \in Args :
                    LET t == setter(cat, n, v) IN
                    /\ t.err = None
                    /\ stringify(t.self).ret =
                          stringify(heap[i]).ret \o <<" ">> \o c \o <<" ">>
                            \o stringify(heap[j]).ret \o Fragment(cat, v)
    /\ \A k \in Instances :
          made[k].by = "combine" =>
              /\ \A cat \in Categories, v \in Args :
                    (setter(cat, heap[k], v).err # None) <=>
                        \/ cat \in Singular /\ Touched(k, cat)
                        \/ LaterTouched(k, cat)
              /\ stringify(heap[k]).ret =
                    heap[k].selectorText \o Rendered(log[k])

\* element('a') has returned on the instance combined from
\* pseudoElement('a') with itself, which now renders '::a + ::aa'
C17_Witness ==
    /\ last.op = "element" /\ last.err = None
    /\ made[last.on].by = "combine"
    /\ Touched(made[last.on].s1, "pseudoElement")
    /\ Touched(made[last.on].s2, "pseudoElement")
    /\ heap[last.on].selectorText =
          <<":", ":", "a", " ", "+", " ", ":", ":", "a">>
    /\ stringify(heap[last.on]).ret =
          <<":", ":", "a", " ", "+", " ", ":", ":", "a", "a">>

-----------------------------------------------------------------------------
(* C18: in every reachable state and for every argument, selector()        *)
(* returns its receiver with the argument appended to selectorText and the *)
(* six fields as they were; every setter call then ends as it would have   *)
(* before, and stringify() then gives the old selectorText, the argument,  *)
(* and behind them the fragments of the setter calls made so far.          *)
C18_SelectorOnlyAppends ==
    /\ \A i \in Instances, v \in Args :
          LET r == call(heap, i, selector(heap[i], v)) IN
          /\ r.err = None
          /\ r.ref = i
          /\ r.heap[i].selectorText = heap[i].selectorText \o v
          /\ r.heap[i].selectorObject = heap[i].selectorObject
          /\ \A c \in Categories, w \in Args :
                setter(c, r.heap[i], w).err = setter(c, heap[i], w).err
          /\ stringify(r.heap[i]).ret =
                heap[i].selectorText \o v \o Rendered(log[i])
    /\ last.op = "selector" =>
          /\ last.err = None
          /\ last.ref = last.on
          /\ stringify(heap[last.on]).ret =
                heap[last.on].selectorText \o Rendered(log[last.on])

\* after id('a').class('a'), selector('a') has returned and the instance
\* renders 'a#a.a'
C18_Witness ==
    /\ last.op = "selector" /\ last.err = None
    /\ log[last.on] = << [cat |-> "id", value |-> <<"a">>],
                         [cat |-> "class", value |-> <<"a">>] >>
    /\ heap[last.on].selectorText = <<"a">>
    /\ stringify(heap[last.on]).ret = <<"a", "#", "a", ".", "a">>

====
